---- MODULE Spec2Model ----
(***************************************************************************)
(* fhir-collector (src/main.go): the day-by-day harvesting loop, its      *)
(* checkpoint store, the retrying fetch, the per-encounter goroutines and *)
(* the publisher.                                                          *)
(*                                                                         *)
(* Dates are day numbers 1..MaxDate (consecutive calendar days).  Strings *)
(* the code splits on "/" are kept as the sequence of their segments, so  *)
(* the empty string is <<"">>.  A fullUrl is <<>> when empty and <<i>>    *)
(* for the entry at index i of a batch otherwise, so that the entries of  *)
(* one batch have different URLs (an encounter may show up on two days).  *)
(*                                                                         *)
(* Two specifications share the definitions:                               *)
(*   Spec           the program: main's loop, the fan-out of a day, the    *)
(*                  goroutines, termination from outside and restarts;     *)
(*   SpecRun        one run of the program, from its start to the end of   *)
(*                  main or of the process, on a store that earlier runs   *)
(*                  (with any START_DATE and END_DATE) may have written;   *)
(*   SpecFanOut     one day of one run in which the upstream, queue and    *)
(*                  store answers to each entry's goroutine are fixed      *)
(*                  beforehand, the goroutines running in any order;       *)
(*   SpecEncounter  one call of processEncounter on every combination of   *)
(*                  encounter fields, upstream answers and store and queue *)
(*                  replies;                                               *)
(*   SpecFetch      one call of fetchDataWithRetry on every sequence of    *)
(*                  upstream responses and every attempt budget.           *)
(***************************************************************************)
EXTENDS Integers, Sequences, FiniteSets, TLC

\* ------------------------------------------------------------- bounds
MaxDate == 2
MaxBatch == 2
MaxAttempts == 4

Dates == 1..MaxDate

\* ------------------------------------------------- program constants
maxRetries == 3
NoDate == 0
StatusOK == 200

EmptyStr == <<"">>
EmptyUrl == <<>>
QueueUrls == {"", "http://localstack:4566/queue"}

VARIABLES
    startDate,          \* START_DATE
    endDate,            \* END_DATE
    queueURL,           \* SQS_QUEUE_URL
    pc,                 \* where the main goroutine (or the process) is
    currentDate,        \* main's working date
    procErr,            \* what processDate returned: "nil", "fetch", "decode"
    redisErr,           \* whether main's last store command returned an error
    tasks,              \* the processEncounter goroutines, keyed <<date, index>>
    cursor,             \* store key last_processed_date (NoDate: key absent)
    unprocessed_dates,  \* store set unprocessed_dates
    invalid_encounters, \* store set invalid_encounters
    completed,          \* history: the dates whose processDate returned nil
    call,               \* SpecEncounter: the arguments and answers of the call
    result              \* SpecEncounter: what the call did

vars == <<startDate, endDate, queueURL, pc, currentDate, procErr, redisErr, tasks,
          cursor, unprocessed_dates, invalid_encounters, completed, call, result>>

config == <<startDate, endDate, queueURL>>
store == <<cursor, unprocessed_dates, invalid_encounters>>
harness == <<completed, call, result>>

\* ------------------------------------------------------------- data

\* Encounter.Participant: a nil slice (field absent or null) or a list of
\* individual references.
NilParticipant == [isNil |-> TRUE, items |-> <<>>]
ParticipantList(refs) == [isNil |-> FALSE, items |-> refs]

PractitionerRef == <<"Practitioner", "dr1">>
PatientRef == <<"Patient", "pt1">>

Participants ==
    { NilParticipant, ParticipantList(<<>>), ParticipantList(<<EmptyStr>>),
      ParticipantList(<<PractitionerRef>>) }

\* Every combination of present and missing fields of an Encounter.
Encounters ==
    [status : {"", "finished"}, classCode : {"", "AMB"},
     participant : Participants, subject : {EmptyStr, PatientRef}]

ValidEncounter ==
    [status |-> "finished", classCode |-> "AMB",
     participant |-> ParticipantList(<<PractitionerRef>>), subject |-> PatientRef]

\* The bundle entries Spec lets the upstream API return: the complete one and
\* one per way processEncounter leaves early.  hasUrl: the entry has a fullUrl.
EntryShapes ==
    { [resource |-> ValidEncounter, hasUrl |-> TRUE],
      [resource |-> [ValidEncounter EXCEPT !.status = ""], hasUrl |-> TRUE],
      [resource |-> [ValidEncounter EXCEPT !.participant = ParticipantList(<<>>)],
       hasUrl |-> TRUE],
      [resource |-> [ValidEncounter EXCEPT
                        !.participant = ParticipantList(<<EmptyStr>>)],
       hasUrl |-> TRUE] }

\* Response bodies of a Practitioner or Patient read: one that does not
\* decode, and decoded entities with their name list.
Undecodable == [decodes |-> FALSE, name |-> <<>>]
Entity(names) == [decodes |-> TRUE, name |-> names]
EntityBodies ==
    { Undecodable,
      Entity(<<>>),
      Entity(<<[given |-> <<>>]>>),
      Entity(<<[given |-> <<"Ana">>]>>) }

\* ------------------------------------------------------ pure functions

\* What the upstream API does with one GET: the request may not complete
\* (done = FALSE), and a completed one has a status and a body that can or
\* cannot be read to its end.
Responses ==
    { [done |-> FALSE, status |-> 0, readable |-> FALSE, body |-> ""],
      [done |-> TRUE, status |-> 500, readable |-> TRUE, body |-> "error page"],
      [done |-> TRUE, status |-> StatusOK, readable |-> FALSE, body |-> ""],
      [done |-> TRUE, status |-> StatusOK, readable |-> TRUE, body |-> "body A"],
      [done |-> TRUE, status |-> StatusOK, readable |-> TRUE, body |-> "body B"] }

\* fetchData: one GET; an error unless the request completes with status 200
\* and a readable body.
fetchData(resp) ==
    IF ~resp.done THEN [err |-> TRUE, body |-> ""]
    ELSE IF resp.status # StatusOK THEN [err |-> TRUE, body |-> ""]
    ELSE IF ~resp.readable THEN [err |-> TRUE, body |-> ""]
    ELSE [err |-> FALSE, body |-> resp.body]

\* Mutant: the wait no longer grows.
waitTimeFixed(i) == 2

\* The seconds fetchDataWithRetry sleeps before attempt i (0-based): 1 << i.
waitTime(i) == 2 ^ i

\* fetchDataWithRetry: attempt i (0-based) succeeds iff outcomes[i+1]; a sleep
\* of waitTime(i) seconds precedes every attempt but the first.
RECURSIVE RetryLoop(_, _, _, _)
RetryLoop(outcomes, n, i, sleeps) ==
    IF i >= n
    THEN [ok |-> FALSE, attempts |-> i, sleeps |-> sleeps]
    ELSE LET slept == IF i > 0 THEN Append(sleeps, waitTime(i)) ELSE sleeps
         IN  IF outcomes[i + 1]
             THEN [ok |-> TRUE, attempts |-> i + 1, sleeps |-> slept]
             ELSE RetryLoop(outcomes, n, i + 1, slept)

\* Mutant: the first failure is returned to the caller.
fetchDataWithRetryOnce(outcomes, n) ==
    RetryLoop(outcomes, IF n > 1 THEN 1 ELSE n, 0, <<>>)

fetchDataWithRetry(outcomes, n) == RetryLoop(outcomes, n, 0, <<>>)

\* fetchDataWithRetry on a sequence of upstream responses (the i-th attempt
\* gets responses[i]): what it returns, the attempts it made and its sleeps.
fetchDataWithRetryOn(responses, n) ==
    LET outcomes == [i \in DOMAIN responses |-> ~fetchData(responses[i]).err]
        r == fetchDataWithRetry(outcomes, n)
    IN  [err |-> ~r.ok,
         data |-> IF r.ok THEN fetchData(responses[r.attempts]).body ELSE "",
         attempts |-> r.attempts,
         sleeps |-> r.sleeps,
         exit |-> "return"]

AttemptOutcomes == [1..maxRetries -> BOOLEAN]

\* What a caller of fetchDataWithRetry gets: an error, or the body of the
\* attempt that succeeded.
FetchResult(outcomes, body) ==
    IF fetchDataWithRetry(outcomes, maxRetries).ok
    THEN [err |-> FALSE, data |-> body]
    ELSE [err |-> TRUE, data |-> Undecodable]

FetchResults ==
    {FetchResult(o, b) : o \in AttemptOutcomes, b \in EntityBodies}

\* Whether the batch read of processDate ends without error.
BatchFetched == {fetchDataWithRetry(o, maxRetries).ok : o \in AttemptOutcomes}

\* Mutant: the leading segment is taken.
extractReferenceIDFirst(ref) == ref[1]

\* extractReferenceID: the last segment when the reference has a "/".
extractReferenceID(ref) ==
    IF Len(ref) > 1 THEN ref[Len(ref)] ELSE ref[1]

\* Mutant: the key no longer follows the index.
clientIDOfFirstLane(i) == "001"

\* processDate's choice of the group key from the entry's index.
clientIDOf(i) == IF i % 2 = 1 THEN "002" ELSE "001"

\* Mutant: the subject reference is not among the required fields.
MissingRequiredFieldButSubject(enc, fullUrl) ==
    \/ enc.status = ""
    \/ enc.classCode = ""
    \/ enc.participant.isNil
    \/ fullUrl = EmptyUrl

\* The required-field check at the head of processEncounter.
MissingRequiredField(enc, fullUrl) ==
    \/ enc.status = ""
    \/ enc.classCode = ""
    \/ enc.participant.isNil
    \/ enc.subject = EmptyStr
    \/ fullUrl = EmptyUrl

\* The validity check of a decoded Practitioner or Patient.
HasGivenName(entity) ==
    Len(entity.name) > 0 /\ Len(entity.name[1].given) > 0

\* The message processEncounter assembles.
FHIRMessage(enc, fullUrl, practitioner, patient) ==
    [fullUrl |-> fullUrl,
     status |-> enc.status,
     class |-> enc.classCode,
     practitionerId |-> extractReferenceID(enc.participant.items[1]),
     patientId |-> extractReferenceID(enc.subject),
     practitionerGiven |-> practitioner.name[1].given[1],
     patientGiven |-> patient.name[1].given[1]]

\* Mutant: a send that failed is sent again and then reported as sent.
sendToSQSResend(message, clientID, qurl, sendOk) ==
    IF qurl = ""
    THEN [fatal |-> TRUE, err |-> FALSE, sent |-> <<>>]
    ELSE IF sendOk
    THEN [fatal |-> FALSE, err |-> FALSE,
          sent |-> <<[body |-> message, groupId |-> clientID]>>]
    ELSE [fatal |-> FALSE, err |-> FALSE,
          sent |-> <<[body |-> message, groupId |-> clientID],
                     [body |-> message, groupId |-> clientID]>>]

\* sendToSQS: log.Fatal on an empty SQS_QUEUE_URL, else SendMessage with the
\* message and MessageGroupId clientID.
sendToSQS(message, clientID, qurl, sendOk) ==
    IF qurl = ""
    THEN [fatal |-> TRUE, err |-> FALSE, sent |-> <<>>]
    ELSE IF sendOk
    THEN [fatal |-> FALSE, err |-> FALSE,
          sent |-> <<[body |-> message, groupId |-> clientID]>>]
    ELSE [fatal |-> FALSE, err |-> TRUE, sent |-> <<>>]

\* What one call of processEncounter does: the references it fetches, whether
\* it issues SADD invalid_encounters fullUrl, the messages it hands to
\* sendToSQS, the messages the queue takes from it, and how it ends ("return",
\* "panic", "fatal").
Effects(fetches, quarantine, handed, sent, exit) ==
    [fetches |-> fetches, quarantine |-> quarantine, handed |-> handed,
     sent |-> sent, exit |-> exit]

processEncounter(enc, fullUrl, clientID, practitionerData, patientData, qurl, sendOk) ==
    IF MissingRequiredField(enc, fullUrl)
    THEN Effects(<<>>, TRUE, <<>>, <<>>, "return")
    ELSE IF Len(enc.participant.items) = 0
    THEN \* enc.Participant[0] on an empty, non-nil slice: index out of range
         Effects(<<>>, FALSE, <<>>, <<>>, "panic")
    ELSE IF enc.participant.items[1] = EmptyStr
    THEN Effects(<<>>, FALSE, <<>>, <<>>, "return")
    ELSE IF enc.subject = EmptyStr
    THEN Effects(<<>>, FALSE, <<>>, <<>>, "return")
    ELSE
    LET practitionerRef == enc.participant.items[1]
        patientRef == enc.subject
    IN  IF practitionerData.err
        THEN Effects(<<practitionerRef>>, TRUE, <<>>, <<>>, "return")
        ELSE IF ~practitionerData.data.decodes
        THEN Effects(<<practitionerRef>>, TRUE, <<>>, <<>>, "return")
        ELSE IF ~HasGivenName(practitionerData.data)
        THEN Effects(<<practitionerRef>>, TRUE, <<>>, <<>>, "return")
        ELSE IF patientData.err
        THEN Effects(<<practitionerRef, patientRef>>, TRUE, <<>>, <<>>, "return")
        ELSE IF ~patientData.data.decodes
        THEN Effects(<<practitionerRef, patientRef>>, TRUE, <<>>, <<>>, "return")
        ELSE IF ~HasGivenName(patientData.data)
        THEN Effects(<<practitionerRef, patientRef>>, TRUE, <<>>, <<>>, "return")
        ELSE
        LET message == FHIRMessage(enc, fullUrl, practitionerData.data,
                                   patientData.data)
            handed == <<[body |-> message, groupId |-> clientID]>>
            send == sendToSQS(message, clientID, qurl, sendOk)
        IN  IF send.fatal
            THEN Effects(<<practitionerRef, patientRef>>, FALSE, handed, <<>>,
                         "fatal")
            ELSE Effects(<<practitionerRef, patientRef>>, send.err, handed,
                         send.sent, "return")

\* The effects a goroutine's call can have, over every answer of the upstream
\* API to its two reads and every reply of the queue.
CallEffects(t, qurl) ==
    { processEncounter(t.enc, t.fullUrl, t.clientID, practitionerData, patientData,
                       qurl, sendOk) :
        practitionerData \in FetchResults, patientData \in FetchResults,
        sendOk \in BOOLEAN }

\* Mutant: the command replaces the set by the member.
SAddOverwrites(set, member, ok) == IF ok THEN {member} ELSE set

\* SADD: the set afterwards; a failed command leaves the set as it was.
SAdd(set, member, ok) == IF ok THEN set \cup {member} ELSE set

\* Mutant: the quarantine of the call is never written.
QuarantinedNever(set, eff, fullUrl, saddOk) == set

\* The store set invalid_encounters after a call with these effects.
Quarantined(set, eff, fullUrl, saddOk) ==
    IF eff.quarantine THEN SAdd(set, fullUrl, saddOk) ELSE set

\* Mutant: a failed command deletes the key.
SetCursorOrDelete(old, dateStr, ok) == IF ok THEN dateStr ELSE NoDate

\* SET last_processed_date: the key afterwards.
SetCursor(old, dateStr, ok) == IF ok THEN dateStr ELSE old

\* Mutant: the working date moves two days.
NextDayTwo(d) == d + 2

\* currentDate.Add(24 * time.Hour)
NextDay(d) == d + 1

\* Mutant: main advances whatever processDate returned.
AdvancesAlways(err) == TRUE

\* main advances when processDate returned no error.
Advances(err) == err = "nil"

\* A goroutine that has returned.
Finished(t) == t.pc = "done"

\* Mutant: processDate does not wait for its goroutines.
WgWaitReturnsAtOnce(ts) == TRUE

\* wg.Wait returns when every goroutine has called wg.Done.
WgWaitReturns(ts) == \A k \in DOMAIN ts : Finished(ts[k])

NoTasks == [k \in {} |-> 0]

\* The goroutine processDate starts for the entry at index i.
NewTask(entry, i) ==
    [enc |-> entry.resource,
     fullUrl |-> IF entry.hasUrl THEN <<i>> ELSE EmptyUrl,
     clientID |-> clientIDOf(i),
     pc |-> "running",
     sent |-> <<>>]

\* The goroutines that have not returned.
Unfinished(ts) == [k \in {j \in DOMAIN ts : ~Finished(ts[j])} |-> ts[k]]

NoCall == [made |-> FALSE]
NoResult == Effects(<<>>, FALSE, <<>>, <<>>, "none")

\* ---------------------------------------------------------------- Init
\* The configuration is valid: both dates parse and SQS_QUEUE_URL is set (the
\* empty SQS_QUEUE_URL is part of SpecEncounter).
Init ==
    /\ startDate \in Dates
    /\ endDate \in Dates
    /\ queueURL \in QueueUrls \ {""}
    /\ pc = "start"
    /\ currentDate = NoDate
    /\ procErr = "nil"
    /\ redisErr = FALSE
    /\ tasks = NoTasks
    /\ cursor = NoDate
    /\ unprocessed_dates = {}
    /\ invalid_encounters = {}
    /\ completed = {}
    /\ call = NoCall
    /\ result = NoResult

\* ------------------------------------------------------ main goroutine

\* main, from the read of last_processed_date to the first loop iteration.
Resume ==
    /\ pc = "start"
    /\ \E getOk \in BOOLEAN :
        IF ~getOk
        THEN /\ pc' = "fatal"
             /\ UNCHANGED currentDate
        ELSE /\ currentDate' = IF cursor = NoDate THEN startDate ELSE cursor
             /\ pc' = "loop"
    /\ UNCHANGED <<config, procErr, redisErr, tasks, store, harness>>

\* main: currentDate.After(endDate), the loop ends.
ReachedEnd ==
    /\ pc = "loop"
    /\ currentDate > endDate
    /\ pc' = "done"
    /\ UNCHANGED <<config, currentDate, procErr, redisErr, tasks, store, harness>>

\* processDate up to wg.Wait: the batch fetch, the quarantine of the date, the
\* decoding of the bundle and the start of one goroutine per entry.
ProcessDate ==
    /\ pc = "loop"
    /\ ~(currentDate > endDate)
    /\ \E fetchOk \in BatchFetched :
        IF ~fetchOk
        THEN \E saddOk \in BOOLEAN :
                /\ unprocessed_dates' = SAdd(unprocessed_dates, currentDate, saddOk)
                /\ redisErr' = ~saddOk
                /\ procErr' = "fetch"
                /\ pc' = "ret"
                /\ UNCHANGED <<tasks, completed>>
        ELSE /\ UNCHANGED unprocessed_dates
             /\ redisErr' = FALSE
             /\ \E decodes \in BOOLEAN :
                 IF ~decodes
                 THEN /\ procErr' = "decode"
                      /\ pc' = "ret"
                      /\ UNCHANGED <<tasks, completed>>
                 ELSE \E n \in 0..MaxBatch :
                      \E entry \in [0..(n - 1) -> EntryShapes] :
                         IF n = 0
                         THEN /\ procErr' = "nil"
                              /\ pc' = "ret"
                              /\ completed' = completed \cup {currentDate}
                              /\ UNCHANGED tasks
                         ELSE /\ tasks' =
                                   [k \in {<<currentDate, i>> : i \in 0..(n - 1)} |->
                                       NewTask(entry[k[2]], k[2])]
                                   @@ Unfinished(tasks)
                              /\ procErr' = "nil"
                              /\ pc' = "wait"
                              /\ UNCHANGED completed
    /\ UNCHANGED <<config, currentDate, cursor, invalid_encounters, call, result>>

\* processDate: wg.Wait returns and processDate returns nil.  The goroutines
\* that have returned are gone; one still running (none, when wg.Wait waits
\* for all of them) goes on running.
WgWait ==
    /\ pc = "wait"
    /\ WgWaitReturns(tasks)
    /\ tasks' = Unfinished(tasks)
    /\ completed' = completed \cup {currentDate}
    /\ pc' = "ret"
    /\ UNCHANGED <<config, currentDate, procErr, redisErr, store, call, result>>

\* main, after processDate returned: log the error, or write the cursor and
\* move the working date.
AfterProcessDate ==
    /\ pc = "ret"
    /\ IF ~Advances(procErr)
       THEN UNCHANGED <<currentDate, cursor, redisErr>>
       ELSE \E setOk \in BOOLEAN :
               /\ cursor' = SetCursor(cursor, currentDate, setOk)
               /\ redisErr' = ~setOk
               /\ currentDate' = NextDay(currentDate)
    /\ pc' = "loop"
    /\ UNCHANGED <<config, procErr, tasks, unprocessed_dates, invalid_encounters,
                   harness>>

\* -------------------------------------------- processEncounter goroutines

Alive == pc \in {"loop", "wait", "ret"}

\* One goroutine runs processEncounter on its entry.
ProcessEncounter(k) ==
    /\ Alive
    /\ tasks[k].pc = "running"
    /\ \E eff \in CallEffects(tasks[k], queueURL), saddOk \in BOOLEAN :
        LET t == tasks[k]
        IN  /\ invalid_encounters' =
                 Quarantined(invalid_encounters, eff, t.fullUrl, saddOk)
            /\ tasks' = [tasks EXCEPT
                            ![k].pc = IF eff.exit = "return" THEN "done" ELSE eff.exit,
                            ![k].sent = eff.sent]
            /\ pc' = IF eff.exit = "return" THEN pc ELSE eff.exit
    /\ UNCHANGED <<config, currentDate, procErr, redisErr, cursor, unprocessed_dates,
                   harness>>

\* ------------------------------------------------------- the process

\* The process is terminated from outside; its goroutines die with it.
Crash ==
    /\ pc \in {"start", "loop", "wait", "ret"}
    /\ pc' = "killed"
    /\ tasks' = NoTasks
    /\ currentDate' = NoDate
    /\ procErr' = "nil"
    /\ redisErr' = FALSE
    /\ UNCHANGED <<config, store, harness>>

\* The program is started again on the same store.
Restart ==
    /\ pc \in {"killed", "panic", "fatal", "done"}
    /\ pc' = "start"
    /\ tasks' = NoTasks
    /\ currentDate' = NoDate
    /\ procErr' = "nil"
    /\ redisErr' = FALSE
    /\ UNCHANGED <<config, store, harness>>

Next ==
    \/ Resume
    \/ ReachedEnd
    \/ ProcessDate
    \/ WgWait
    \/ AfterProcessDate
    \/ \E k \in DOMAIN tasks : ProcessEncounter(k)
    \/ Crash
    \/ Restart

Spec == Init /\ [][Next]_vars

\* ------------------------------------------------------------ one run

\* The start of a run.  last_processed_date is absent or holds a date an
\* earlier run wrote; START_DATE and END_DATE are read anew by every run, so
\* the date in the store can lie before, in or after the window they give.
InitRun ==
    /\ startDate \in Dates
    /\ endDate \in Dates
    /\ queueURL \in QueueUrls \ {""}
    /\ pc = "start"
    /\ currentDate = NoDate
    /\ procErr = "nil"
    /\ redisErr = FALSE
    /\ tasks = NoTasks
    /\ cursor \in {NoDate} \cup Dates
    /\ unprocessed_dates = {}
    /\ invalid_encounters = {}
    /\ completed = {}
    /\ call = NoCall
    /\ result = NoResult

\* The steps of a run: nothing ends the process from outside.
NextRun ==
    \/ Resume
    \/ ReachedEnd
    \/ ProcessDate
    \/ WgWait
    \/ AfterProcessDate
    \/ \E k \in DOMAIN tasks : ProcessEncounter(k)

SpecRun == InitRun /\ [][NextRun]_vars

\* The main goroutine and the goroutines of a fan-out are scheduled as long as
\* they can run.
SpecRunFair == SpecRun /\ WF_vars(NextRun)

\* ------------------------------------------------- one day, fixed answers

\* The answers one goroutine gets: the practitioner resolves, the patient
\* resolves or its fetch fails, the queue accepts or rejects the message, the
\* store accepts or rejects the SADD.
FanOutAnswers ==
    [practitionerData : {[err |-> FALSE, data |-> Entity(<<[given |-> <<"Ana">>]>>)]},
     patientData : {[err |-> FALSE, data |-> Entity(<<[given |-> <<"Ana">>]>>)],
                    [err |-> TRUE, data |-> Undecodable]},
     sendOk : BOOLEAN, saddOk : BOOLEAN]

\* main is about to call processDate for the only day of the window; the
\* answers to the goroutine of each index are chosen.
InitFanOut ==
    /\ startDate = MaxDate
    /\ endDate = MaxDate
    /\ queueURL \in QueueUrls \ {""}
    /\ pc = "loop"
    /\ currentDate = MaxDate
    /\ procErr = "nil"
    /\ redisErr = FALSE
    /\ tasks = NoTasks
    /\ cursor = NoDate
    /\ unprocessed_dates = {}
    /\ invalid_encounters = {}
    /\ completed = {}
    /\ call \in [made : {TRUE}, answers : [0..(MaxBatch - 1) -> FanOutAnswers]]
    /\ result = NoResult

\* What the goroutine of task t does with the answers a.
AnsweredEffects(t, a, qurl) ==
    processEncounter(t.enc, t.fullUrl, t.clientID, a.practitionerData,
                     a.patientData, qurl, a.sendOk)

\* One goroutine runs processEncounter on its entry and gets the answers
\* chosen for its index.
ProcessEncounterAnswered(k) ==
    /\ Alive
    /\ tasks[k].pc = "running"
    /\ LET t == tasks[k]
           a == call.answers[k[2]]
           eff == AnsweredEffects(t, a, queueURL)
       IN  /\ invalid_encounters' =
                Quarantined(invalid_encounters, eff, t.fullUrl, a.saddOk)
           /\ tasks' = [tasks EXCEPT
                           ![k].pc = IF eff.exit = "return" THEN "done" ELSE eff.exit,
                           ![k].sent = eff.sent]
           /\ pc' = IF eff.exit = "return" THEN pc ELSE eff.exit
    /\ UNCHANGED <<config, currentDate, procErr, redisErr, cursor, unprocessed_dates,
                   harness>>

NextFanOut ==
    \/ ReachedEnd
    \/ ProcessDate
    \/ WgWait
    \/ AfterProcessDate
    \/ \E k \in DOMAIN tasks : ProcessEncounterAnswered(k)

SpecFanOut == InitFanOut /\ [][NextFanOut]_vars

\* ------------------------------------------- one call of processEncounter

\* The calls SpecEncounter makes: every encounter, with and without fullUrl,
\* at every index of a batch, with every answer to the two reads and every
\* reply of the queue and of the store.
Calls ==
    [made : {TRUE}, enc : Encounters, fullUrl : {EmptyUrl, <<0>>},
     index : 0..(MaxBatch - 1),
     practitionerData : FetchResults, patientData : FetchResults,
     sendOk : BOOLEAN, saddOk : BOOLEAN]

InitEncounter ==
    /\ startDate = MaxDate
    /\ endDate = MaxDate
    /\ queueURL \in QueueUrls
    /\ pc = "wait"
    /\ currentDate = MaxDate
    /\ procErr = "nil"
    /\ redisErr = FALSE
    /\ tasks = NoTasks
    /\ cursor = NoDate
    /\ unprocessed_dates = {}
    /\ invalid_encounters = {}
    /\ completed = {}
    /\ call \in Calls
    /\ result = NoResult

\* processEncounter runs once on the call's arguments.
CallProcessEncounter ==
    /\ result.exit = "none"
    /\ LET eff == processEncounter(call.enc, call.fullUrl, clientIDOf(call.index),
                                   call.practitionerData, call.patientData,
                                   queueURL, call.sendOk)
       IN  /\ result' = eff
           /\ invalid_encounters' =
                Quarantined(invalid_encounters, eff, call.fullUrl, call.saddOk)
    /\ UNCHANGED <<config, pc, currentDate, procErr, redisErr, tasks, cursor,
                   unprocessed_dates, completed, call>>

NextEncounter == CallProcessEncounter

SpecEncounter == InitEncounter /\ [][NextEncounter]_vars

\* ----------------------------------------- one call of fetchDataWithRetry

\* The calls SpecFetch makes: every sequence of upstream responses, with every
\* attempt budget from 0 up.
FetchCalls ==
    [made : {TRUE}, responses : [1..MaxAttempts -> Responses],
     maxRetries : 0..MaxAttempts]

InitFetch ==
    /\ startDate = MaxDate
    /\ endDate = MaxDate
    /\ queueURL \in QueueUrls \ {""}
    /\ pc = "loop"
    /\ currentDate = MaxDate
    /\ procErr = "nil"
    /\ redisErr = FALSE
    /\ tasks = NoTasks
    /\ cursor = NoDate
    /\ unprocessed_dates = {}
    /\ invalid_encounters = {}
    /\ completed = {}
    /\ call \in FetchCalls
    /\ result = NoResult

\* fetchDataWithRetry runs once on the call's arguments.
CallFetchDataWithRetry ==
    /\ result.exit = "none"
    /\ result' = fetchDataWithRetryOn(call.responses, call.maxRetries)
    /\ UNCHANGED <<config, pc, currentDate, procErr, redisErr, tasks, store,
                   completed, call>>

NextFetch == CallFetchDataWithRetry

SpecFetch == InitFetch /\ [][NextFetch]_vars

\* ------------------------------------------------------------- claims

Range(seq) == {seq[i] : i \in DOMAIN seq}

Running(k) == tasks[k].pc = "running"

\* main has processDate's nil in hand and goes on to the next iteration.
AdvanceStep == pc = "ret" /\ procErr = "nil" /\ pc' = "loop"

\* C1 as stated: when processDate returned nil for D (batch fetched and decoded,
\* every goroutine of the day returned), the step main takes next leaves the
\* persisted cursor at D and the working date at D+1.
C1_CursorSetAndDateAdvanced ==
    [][AdvanceStep => (cursor' = currentDate /\ currentDate' = currentDate + 1)]_vars

\* C1 amended: in that step the working date becomes D+1, and the persisted
\* cursor is D when the store took the SET and is left as it was when the SET
\* returned an error.
C1_CursorSetUnlessStoreFails ==
    [][AdvanceStep =>
          /\ currentDate' = currentDate + 1
          /\ ~redisErr' => cursor' = currentDate
          /\ redisErr' => cursor' = cursor]_vars

C1_Witness ==
    /\ pc = "loop"
    /\ procErr = "nil"
    /\ ~redisErr
    /\ cursor \in completed
    /\ currentDate = cursor + 1

\* processDate gives up on the batch of the working date.
FetchFailsStep == pc = "loop" /\ pc' = "ret" /\ procErr' = "fetch"
\* main takes processDate's fetch error.
FetchFailedStep == pc = "ret" /\ procErr = "fetch" /\ pc' = "loop"

\* C2 as stated: when the batch fetch of D fails on all attempts, D is in
\* unprocessed_dates, no goroutine is started, and neither the persisted cursor
\* nor the working date changes, then or when main takes the error.
C2_FailedDateQuarantined ==
    [][/\ FetchFailsStep =>
            /\ currentDate \in unprocessed_dates'
            /\ \A k \in DOMAIN tasks' : tasks'[k].pc # "running"
            /\ cursor' = cursor
            /\ currentDate' = currentDate
       /\ FetchFailedStep => (cursor' = cursor /\ currentDate' = currentDate)]_vars

\* C2 amended: as stated, except that D is in unprocessed_dates when the store
\* took the SADD; when the SADD returned an error the set is left as it was.
C2_FailedDateQuarantinedUnlessStoreFails ==
    [][/\ FetchFailsStep =>
            /\ ~redisErr' => currentDate \in unprocessed_dates'
            /\ redisErr' => unprocessed_dates' = unprocessed_dates
            /\ \A k \in DOMAIN tasks' : tasks'[k].pc # "running"
            /\ cursor' = cursor
            /\ currentDate' = currentDate
       /\ FetchFailedStep => (cursor' = cursor /\ currentDate' = currentDate)]_vars

C2_Witness ==
    /\ pc = "loop"
    /\ procErr = "fetch"
    /\ ~redisErr
    /\ currentDate \in unprocessed_dates
    /\ cursor < currentDate
    /\ tasks = NoTasks

\* C3 as stated: no run issues a batch fetch for the date the persisted cursor
\* holds (a date an earlier run persisted and advanced past).  In "wait" and
\* "ret" the batch of currentDate has been fetched by this run.
C3_NoRefetchOfPersistedDate ==
    ~(pc \in {"wait", "ret"} /\ cursor = currentDate)

\* C4 as stated: every date from the starting date up to the persisted cursor
\* has had a processDate that returned nil, and during the fan-out of D the
\* persisted cursor is before D (so that a crash then leaves it before D).
C4_CursorCoversCompletedDates ==
    cursor # NoDate => \A d \in startDate..cursor : d \in completed
C4_ResumableUnderCrashes ==
    /\ C4_CursorCoversCompletedDates
    /\ pc = "wait" => cursor < currentDate

\* The required fields as the claims list them.
ClaimMissingField(c) ==
    \/ c.enc.status = ""
    \/ c.enc.classCode = ""
    \/ c.enc.participant.isNil
    \/ Len(c.enc.participant.items) = 0
    \/ c.enc.participant.items[1] = EmptyStr
    \/ c.enc.subject = EmptyStr
    \/ c.fullUrl = EmptyUrl

\* A reference that does not resolve: the fetch failed, the body does not
\* decode, or the entity has no first name entry with a given name.
Unresolved(r) ==
    \/ r.err
    \/ ~r.data.decodes
    \/ r.data.name = <<>>
    \/ r.data.name[1].given = <<>>

Called == result.exit # "none"

\* C5 as stated: a call on a candidate that misses a required field returns
\* normally, has issued SADD invalid_encounters fullUrl (which is in the set
\* when the store took it) and has fetched nothing.
C5_MissingFieldQuarantined ==
    (Called /\ ClaimMissingField(call)) =>
        /\ result.exit = "return"
        /\ result.quarantine
        /\ call.saddOk => call.fullUrl \in invalid_encounters
        /\ result.fetches = <<>>

C6_Case ==
    /\ Called
    /\ ~ClaimMissingField(call)
    /\ Unresolved(call.practitionerData) \/ Unresolved(call.patientData)

\* C6 as stated: a call on a complete candidate whose practitioner or patient
\* does not resolve leaves fullUrl in invalid_encounters and publishes nothing,
\* and does not fetch the patient when the practitioner did not resolve.
C6_UnresolvedQuarantined ==
    C6_Case =>
        /\ call.fullUrl \in invalid_encounters
        /\ result.sent = <<>>
        /\ Unresolved(call.practitionerData) => result.fetches = <<PractitionerRef>>

\* C6 amended: such a call issues SADD invalid_encounters fullUrl, so that
\* fullUrl is in the set when the store took the command; it publishes nothing
\* and does not fetch the patient when the practitioner did not resolve.
C6_UnresolvedQuarantinedUnlessStoreFails ==
    C6_Case =>
        /\ result.exit = "return"
        /\ result.quarantine
        /\ call.saddOk => call.fullUrl \in invalid_encounters
        /\ result.sent = <<>>
        /\ Unresolved(call.practitionerData) => result.fetches = <<PractitionerRef>>

C6_Witness ==
    /\ C6_Case
    /\ ~Unresolved(call.practitionerData)
    /\ call.patientData.data = Entity(<<[given |-> <<>>]>>)
    /\ ~call.patientData.err
    /\ result.fetches = <<PractitionerRef, PatientRef>>
    /\ call.fullUrl \in invalid_encounters

C7_Case ==
    /\ Called
    /\ ~ClaimMissingField(call)
    /\ ~Unresolved(call.practitionerData)
    /\ ~Unresolved(call.patientData)

ClaimKey(i) == IF (i \div 2) * 2 = i THEN "001" ELSE "002"

\* C8: the goroutine of the entry at index i carries, and every message it
\* publishes has, the key "001" when i is even and "002" when i is odd.
C8_GroupKeyByIndexParity ==
    \A k \in DOMAIN tasks :
        /\ tasks[k].clientID = ClaimKey(k[2])
        /\ \A j \in 1..Len(tasks[k].sent) :
              tasks[k].sent[j].groupId = ClaimKey(k[2])

C8_Witness ==
    /\ pc = "wait"
    /\ \E k, l \in DOMAIN tasks :
          /\ k[2] = 0 /\ l[2] = 1
          /\ Len(tasks[k].sent) = 1 /\ tasks[k].sent[1].groupId = "001"
          /\ Len(tasks[l].sent) = 1 /\ tasks[l].sent[1].groupId = "002"
          /\ tasks[k].enc = tasks[l].enc

C10_JoinBarrier ==
    /\ pc \in {"start", "loop", "ret", "done"} => \A k \in DOMAIN tasks : ~Running(k)
    /\ \A k \in DOMAIN tasks : Running(k) => k[1] = currentDate

C10_Witness ==
    /\ pc = "wait"
    /\ cursor = startDate
    /\ currentDate = startDate + 1
    /\ startDate \in completed
    /\ \E k \in DOMAIN tasks : Running(k)
    /\ invalid_encounters # {}

\* An attempt of the call that fails, and the attempts the call made.
AttemptFails(j) == fetchData(call.responses[j]).err
FirstSuccess(j) == ~AttemptFails(j) /\ \A h \in 1..(j - 1) : AttemptFails(h)

\* C11: a call of fetchDataWithRetry makes at most maxRetries attempts; when
\* some attempt within the budget succeeds it returns the body of the first
\* such attempt and has made no attempt after it; it returns an error only
\* when it has made exactly maxRetries attempts and all of them failed.
C11_RetryBudget ==
    Called =>
        /\ result.attempts <= call.maxRetries
        /\ \A j \in 1..call.maxRetries :
              FirstSuccess(j) =>
                 /\ ~result.err
                 /\ result.attempts = j
                 /\ result.data = call.responses[j].body
        /\ result.err =>
              /\ result.attempts = call.maxRetries
              /\ \A j \in 1..call.maxRetries : AttemptFails(j)
        /\ ~result.err => FirstSuccess(result.attempts)

C11_Witness ==
    /\ Called
    /\ call.maxRetries = maxRetries
    /\ AttemptFails(1) /\ AttemptFails(2) /\ ~AttemptFails(3)
    /\ call.responses[3].body = "body B"
    /\ call.responses[4].body = "body A"
    /\ ~result.err
    /\ result.attempts = 3
    /\ result.data = "body B"

\* C12: the sleeps of a call are, in order, 2^i seconds after the i-th failed
\* attempt that is followed by another attempt: none before the first attempt
\* and none after the last one; with a budget of 3 that fails three times they
\* are 2s and 4s.
C12_BackoffSchedule ==
    Called =>
        /\ Len(result.sleeps) = (IF result.attempts = 0 THEN 0 ELSE result.attempts - 1)
        /\ \A i \in 1..Len(result.sleeps) :
              /\ AttemptFails(i)
              /\ result.sleeps[i] = SubSeq(<<2, 4, 8, 16, 32, 64>>, i, i)[1]
        /\ (call.maxRetries = 3 /\ result.err) => result.sleeps = <<2, 4>>

C12_Witness ==
    /\ Called
    /\ call.maxRetries = 3
    /\ result.err
    /\ result.attempts = 3
    /\ result.sleeps = <<2, 4>>

\* C13 as stated: the run does not come to rest short of Done once main has
\* its starting date (pc "fatal": the read of last_processed_date failed before
\* that), Done is entered only with the working date after the end date, and
\* the working date moves one day at a time.
C13_LoopReachesDone ==
    [][/\ pc' = "done" => currentDate' > endDate
       /\ (pc' # "fatal") => (pc' = "done" \/ (ENABLED NextRun)')
       /\ (pc = "ret" /\ currentDate' # currentDate) =>
              currentDate' = currentDate + 1]_vars

\* processDate has fetched and decoded the batch of every date the loop works
\* on, at some attempt.
EveryDateSucceeds ==
    \A d \in Dates :
        (pc = "loop" /\ currentDate = d /\ d <= endDate)
            ~> (currentDate = d /\ pc \in {"wait", "ret"} /\ procErr = "nil")

\* C13, the part that holds: when every date succeeds at some attempt, the run
\* reaches Done or the process dies in a goroutine (the panic of
\* enc.Participant[0]) or at startup.
C13_DoneUnlessProcessDies ==
    EveryDateSucceeds => <>(pc \in {"done", "panic", "fatal"})

\* processDate is called for the working date.
BatchFetchStep == pc = "loop" /\ pc' \in {"wait", "ret"}

\* C14 as stated (batch level): once processDate has given up on the batch of D
\* and put D into unprocessed_dates, the run issues no further batch fetch
\* for D.
C14_NoRetryAfterTerminalFailure ==
    [][~(/\ BatchFetchStep
         /\ procErr = "fetch"
         /\ currentDate \in unprocessed_dates)]_vars

\* C20 as stated: every date whose batch the run fetches lies in
\* [START_DATE, END_DATE], and a run that finds a cursor after END_DATE ends
\* without a fetch.  In "wait" and "ret" the batch of currentDate has been
\* fetched.
C20_FetchesWithinWindow ==
    /\ pc \in {"wait", "ret"} => (startDate <= currentDate /\ currentDate <= endDate)
    /\ (pc = "done" /\ cursor > endDate) => completed = {}

\* wg.Wait returns: the fan-out of the working date is over and processDate
\* returns nil, after which main writes the cursor.
FanOutEndsStep == pc = "wait" /\ pc' = "ret"

\* C15 as stated: when the fan-out of D is over (main then moves the cursor
\* past D), each entry of the batch has had a message published or has its
\* fullUrl in invalid_encounters; and a date processDate failed on is retried
\* (main is back in its loop on the same date) or is in unprocessed_dates.
C15_NoRecordDropped ==
    [][/\ FanOutEndsStep =>
            \A k \in DOMAIN tasks :
                \/ tasks[k].sent # <<>>
                \/ tasks[k].fullUrl \in invalid_encounters
       /\ (pc = "ret" /\ procErr # "nil") =>
            \/ (pc' = "loop" /\ currentDate' = currentDate)
            \/ currentDate \in unprocessed_dates]_vars

\* The last segment of a reference.
TrailingSegment(ref) == ref[Len(ref)]

\* C16: every message a call hands to sendToSQS (published or not) was built
\* from an encounter with status, class code, subject reference, fullUrl and a
\* first participant, and from a practitioner and a patient that were fetched,
\* decoded and have a given name in a name entry; its ids are the trailing
\* segments of the two references the call fetched, and what is published is
\* what was handed over.
C16_MessageFromValidatedParts ==
    Called =>
        /\ \A j \in 1..Len(result.sent) : result.sent[j] \in Range(result.handed)
        /\ \A j \in 1..Len(result.handed) :
              LET m == result.handed[j].body
              IN  /\ call.enc.status # "" /\ m.status = call.enc.status
                  /\ call.enc.classCode # "" /\ m.class = call.enc.classCode
                  /\ call.enc.subject # EmptyStr
                  /\ call.fullUrl # EmptyUrl /\ m.fullUrl = call.fullUrl
                  /\ ~call.enc.participant.isNil
                  /\ Len(call.enc.participant.items) >= 1
                  /\ ~Unresolved(call.practitionerData)
                  /\ ~Unresolved(call.patientData)
                  /\ m.practitionerGiven = call.practitionerData.data.name[1].given[1]
                  /\ m.patientGiven = call.patientData.data.name[1].given[1]
                  /\ result.fetches = <<call.enc.participant.items[1], call.enc.subject>>
                  /\ m.practitionerId = TrailingSegment(result.fetches[1])
                  /\ m.patientId = TrailingSegment(result.fetches[2])

C16_Witness ==
    /\ Called
    /\ Len(result.handed) = 1
    /\ result.sent = <<>>
    /\ result.handed[1].body.practitionerId = "dr1"
    /\ result.handed[1].body.patientId = "pt1"
    /\ call.fullUrl \in invalid_encounters

\* What the goroutine of task k does when it runs alone on the answers chosen
\* for its index.
AloneEffects(k) == AnsweredEffects(tasks[k], call.answers[k[2]], queueURL)

\* C17: no step removes an element from invalid_encounters or from
\* unprocessed_dates; and when the fan-out of a day is over, in whatever order
\* its goroutines ran, invalid_encounters holds exactly the fullUrl of the
\* entries whose own call quarantines (and whose SADD the store took), and the
\* messages published for an entry are those of its own call.
C17_AppendOnlyAndOrderIndependent ==
    [][/\ invalid_encounters \subseteq invalid_encounters'
       /\ unprocessed_dates \subseteq unprocessed_dates'
       /\ FanOutEndsStep =>
            /\ invalid_encounters =
                  { tasks[k].fullUrl :
                      k \in { j \in DOMAIN tasks :
                                 AloneEffects(j).quarantine /\ call.answers[j[2]].saddOk } }
            /\ \A k \in DOMAIN tasks : tasks[k].sent = AloneEffects(k).sent]_vars

C17_Witness ==
    /\ pc = "wait"
    /\ Cardinality(DOMAIN tasks) = 2
    /\ \A k \in DOMAIN tasks : tasks[k].pc = "done"
    /\ Cardinality(invalid_encounters) = 1
    /\ \E k, l \in DOMAIN tasks :
          /\ tasks[k].sent # <<>>
          /\ tasks[l].sent = <<>>
          /\ tasks[l].fullUrl \in invalid_encounters
          /\ tasks[k].enc = tasks[l].enc
          /\ k[2] > l[2]

\* C18 as stated: a call on a candidate without subject reference returns
\* without SADD invalid_encounters, without a fetch and without a message.
C18_MissingPatientSoftSkip ==
    (Called /\ call.enc.subject = EmptyStr) =>
        /\ result.exit = "return"
        /\ ~result.quarantine
        /\ call.fullUrl \notin invalid_encounters
        /\ result.fetches = <<>>
        /\ result.sent = <<>>

\* The candidate of the call has every required field but, possibly, the
\* reference of its first participant.
FirstParticipantOnly ==
    /\ call.enc.status # ""
    /\ call.enc.classCode # ""
    /\ call.enc.subject # EmptyStr
    /\ call.fullUrl # EmptyUrl
    /\ ~call.enc.participant.isNil
    /\ Len(call.enc.participant.items) >= 1

\* C18 amended: a call on a candidate without subject reference fails the
\* required-field check: it issues SADD invalid_encounters fullUrl (fullUrl is
\* in the set when the store took the command) and returns without a fetch
\* and without a message.  The soft skip (no SADD, no fetch, no message) is
\* what a call does on a candidate that has the other required fields and
\* whose first participant has an empty reference.
C18_MissingPatientQuarantined ==
    /\ (Called /\ call.enc.subject = EmptyStr) =>
          /\ result.exit = "return"
          /\ result.quarantine
          /\ call.saddOk => call.fullUrl \in invalid_encounters
          /\ result.fetches = <<>>
          /\ result.handed = <<>>
          /\ result.sent = <<>>
    /\ (Called /\ FirstParticipantOnly /\ call.enc.participant.items[1] = EmptyStr) =>
          /\ result.exit = "return"
          /\ ~result.quarantine
          /\ invalid_encounters = {}
          /\ result.fetches = <<>>
          /\ result.handed = <<>>
          /\ result.sent = <<>>

C18_Witness ==
    /\ Called
    /\ call.enc = [ValidEncounter EXCEPT !.subject = EmptyStr]
    /\ call.fullUrl = <<0>>
    /\ result.quarantine
    /\ invalid_encounters = {<<0>>}

\* C19: the persisted cursor never decreases (an absent key counts as before
\* every date); it changes only when main, with the nil of processDate for the
\* working date in hand, writes that date; the step in which the store rejects
\* the write leaves it as it was; and it is never after the working date of
\* the run.
C19_CursorInvariant ==
    [][/\ cursor' >= cursor
       /\ cursor' # cursor =>
            /\ pc = "ret" /\ procErr = "nil"
            /\ currentDate \in completed
            /\ cursor' = currentDate
       /\ (pc = "ret" /\ redisErr') => cursor' = cursor
       /\ currentDate # NoDate => cursor <= currentDate
       /\ currentDate' # NoDate => cursor' <= currentDate']_vars

C19_Witness ==
    /\ pc = "loop"
    /\ redisErr
    /\ cursor # NoDate
    /\ currentDate = cursor + 2
    /\ (cursor + 1) \in completed

====
